---- MODULE Spec2Model ----
(***************************************************************************)
(* A model of DQNAgent (src/deep_q_learning.py): the replay memory, the    *)
(* epsilon-greedy policy with its decay, the online and target networks    *)
(* and the loop of train_agent.                                            *)
(*                                                                         *)
(* Real numbers are fixed-point integers with unit Scale (1.0 = 1000):     *)
(* gamma, epsilon, min_epsilon, epsilon_decay, rewards and q-values.  A    *)
(* product x*y of two such numbers is (x * y) \div Scale.                  *)
(*                                                                         *)
(* The two Keras networks and the Gym environment are outside the          *)
(* repository.  A network is a parameter id in Params with a fixed forward *)
(* pass Predict; fit moves the online network to any parameter id.  The    *)
(* environment answers reset and step with any state, reward and done      *)
(* flag of small sets.                                                     *)
(***************************************************************************)
EXTENDS Integers, Sequences, FiniteSets

VARIABLES
    \* constructor arguments (DQNAgent.__init__) and train_agent arguments
    gamma, min_epsilon, epsilon_decay, maxlen, steps_update_target_model,
    episodes, steps_per_episode, batch_size,
    \* fields of the agent
    experience_replay, epsilon, q_value_model, target_model,
    \* locals of train_agent
    pc, i, step, state, action, done, reward_in_episode, steps_till_update,
    total_steps,
    \* locals of _replay, live between the sampling and the fit
    minibatch, states_in_batch, target_in_batch,
    \* history variables (not in the code): what has happened so far
    appended,      \* every transition appended to experience_replay, in order
    numFits,       \* calls of q_value_model.fit
    numDecays,     \* executions of line 137
    envSteps,      \* calls of env.step
    termSteps,     \* calls of env.step that returned done
    sinceSync,     \* loop iterations that reached line 189 since the last set_weights
    lastSyncGap,   \* sinceSync (this iteration included) at the last set_weights, 0 if none
    epsilon0       \* the constructor's epsilon

config == <<gamma, min_epsilon, epsilon_decay, maxlen, steps_update_target_model,
            episodes, steps_per_episode, batch_size, epsilon0>>
agent == <<experience_replay, epsilon, q_value_model, target_model>>
locals == <<pc, i, step, state, action, done, reward_in_episode, steps_till_update,
            total_steps>>
replayLocals == <<minibatch, states_in_batch, target_in_batch>>
history == <<appended, numFits, numDecays, envSteps, termSteps, sinceSync, lastSyncGap>>
vars == <<config, agent, locals, replayLocals, history>>

----------------------------------------------------------------------------
\* Fixed-point unit (three decimals) and the defaults of __init__
Scale == 10 * 10 * 10
DefaultGamma == 950
DefaultEpsilon == 1000
DefaultMinEpsilon == 10
DefaultEpsilonDecay == 995

\* Bounds of the model
MaxCapacity == 3
MaxSync == 2
MaxStepsPerEpisode == 3
MaxAppends == 5
MaxDecays == 4

States == {0, 1}
Actions == {0, 1}
Rewards == {-Scale, Scale}
\* the rewards the environment gives with a done flag of d
StepRewards(d) == IF d THEN Rewards ELSE {Scale}
Params == {0, 1}
Gammas == {DefaultGamma, Scale \div 2}
BatchSizes == {-1, 1, 2}
Capacities == {1, 2, 3}
SyncIntervals == 1..MaxSync
EpisodeCounts == {1, 2}
StepCaps == {MaxStepsPerEpisode}

Transitions == [state : States, action : Actions, reward : Rewards,
                next_state : States, done : BOOLEAN]

\* inputs of the replay-memory specification: capacities and what is appended
BufferCapacities == 0..MaxCapacity
BufferInputs == {t \in Transitions : t.state = 0 /\ t.action = 0}

\* inputs of the epsilon specification: constructor arguments, valid or not
EpsilonValues == {-500, 0, 500, 1000, 1500}
MinEpsilonValues == {-100, 10, 600}
DecayValues == {-500, 0, 500, 995, 1500}

----------------------------------------------------------------------------
\* Helpers

MaxOf(f) == CHOOSE v \in {f[a] : a \in DOMAIN f} : \A a \in DOMAIN f : f[a] <= v

\* np.argmax: the first index holding the maximum
ArgMax(f) == CHOOSE a \in DOMAIN f :
                /\ f[a] = MaxOf(f)
                /\ \A b \in DOMAIN f : f[b] = MaxOf(f) => a <= b

\* model.predict(state)[0]: the q-value of each action, for parameters p
Predict(p, s) == [a \in Actions |-> Scale * ((p * (a + 1) + s) % 3)]

\* a deque without a capacity
DequeAppend_Unbounded(buf, t, cap) == Append(buf, t)

\* a full deque that drops the new entry instead of the oldest
DequeAppend_KeepOldest(buf, t, cap) ==
    IF cap = 0 THEN <<>>
    ELSE IF Len(buf) >= cap THEN buf
    ELSE Append(buf, t)

\* deque(maxlen).append
DequeAppend(buf, t, cap) ==
    IF cap = 0 THEN <<>>
    ELSE IF Len(buf) >= cap THEN Append(Tail(buf), t)
    ELSE Append(buf, t)

\* the decay without its floor
Decay_NoFloor(eps, floor, rate) == (eps * rate) \div Scale

\* line 137
Decay(eps, floor, rate) ==
    LET prod == (eps * rate) \div Scale
    IN  IF floor >= prod THEN floor ELSE prod

\* a warm-up test that lets a memory of exactly batch_size entries through
WarmingUp_Strict(n, k) == n < k

\* line 106: the replay memory is still warming up
WarmingUp(n, k) == n <= k

\* random.sample(population, k) raises ValueError unless 0 <= k <= len(population)
SampleFails(n, k) == k < 0 \/ k > n

\* random.sample(population, k): the k-long lists of entries at distinct positions
SampleBatch(buf, k) ==
    LET picks == {f \in [1..k -> 1..Len(buf)] :
                     \A x, y \in 1..k : x # y => f[x] # f[y]}
    IN  {[x \in 1..k |-> buf[f[x]]] : f \in picks}

\* a TD target that bootstraps from the online network
TDTarget_Online(t) ==
    IF t.done THEN t.reward
    ELSE t.reward + (gamma * MaxOf(Predict(q_value_model, t.next_state))) \div Scale

\* lines 114-117: the TD target of one transition
TDTarget(t) ==
    IF t.done THEN t.reward
    ELSE t.reward + (gamma * MaxOf(Predict(target_model, t.next_state))) \div Scale

\* a target vector that is zero at the actions not taken
TargetVector_Zeros(t) ==
    [a \in Actions |-> IF a = t.action THEN TDTarget(t) ELSE 0]

\* lines 120-121: the online prediction with the taken action's entry overwritten
TargetVector(t) ==
    [Predict(q_value_model, t.state) EXCEPT ![t.action] = TDTarget(t)]

\* _sample_action (lines 89-93): the actions it can return in state s.
\* random.uniform(0, 1) lies in [0, 1): epsilon >= 1 always explores, epsilon <= 0 never.
SampleAction(s) ==
    (IF epsilon > 0 THEN Actions ELSE {})
        \cup (IF epsilon < Scale THEN {ArgMax(Predict(q_value_model, s))} ELSE {})

\* a loop without its break
Terminal_Ignored == FALSE

\* line 182
Terminal == done

\* a synchronization that waits for the first fit
SyncDue_AfterFit(counter, interval) == counter % interval = 0 /\ numFits > 0

\* line 189
SyncDue(counter, interval) == counter % interval = 0

\* a step counter that starts again at every step
NextTotalSteps_Restart(n) == 1

\* line 194
NextTotalSteps(n) == n + 1

----------------------------------------------------------------------------
\* DQNAgent.__init__ (lines 47-59): the agent after construction, with the
\* default epsilon schedule.  The two networks are built independently.
Init ==
    /\ gamma \in Gammas
    /\ epsilon0 = DefaultEpsilon
    /\ min_epsilon = DefaultMinEpsilon
    /\ epsilon_decay = DefaultEpsilonDecay
    /\ maxlen \in Capacities
    /\ steps_update_target_model \in SyncIntervals
    /\ experience_replay = <<>>
    /\ epsilon = epsilon0
    /\ q_value_model \in Params
    /\ target_model \in Params
    /\ episodes = 0 /\ steps_per_episode = 0 /\ batch_size = 0
    /\ pc = "idle"
    /\ i = 0 /\ step = 0 /\ state = 0 /\ action = 0 /\ done = FALSE
    /\ reward_in_episode = 0 /\ steps_till_update = 0 /\ total_steps = 0
    /\ minibatch = <<>> /\ states_in_batch = <<>> /\ target_in_batch = <<>>
    /\ appended = <<>>
    /\ numFits = 0 /\ numDecays = 0 /\ envSteps = 0 /\ termSteps = 0
    /\ sinceSync = 0 /\ lastSyncGap = 0

\* a train_agent that starts by copying the online weights into the target
TrainAgent_SyncsFirst ==
    /\ pc = "idle"
    /\ episodes' \in EpisodeCounts
    /\ steps_per_episode' \in StepCaps
    /\ batch_size' \in BatchSizes
    /\ steps_till_update' = 1
    /\ total_steps' = 1
    /\ i' = 1
    /\ target_model' = q_value_model
    /\ pc' = "episode"
    /\ UNCHANGED <<action, gamma, min_epsilon, epsilon_decay, maxlen, steps_update_target_model,
                   epsilon0, experience_replay, epsilon, q_value_model, step, state,
                   done, reward_in_episode, replayLocals, history>>

\* train_agent is called (lines 145-160)
TrainAgent ==
    /\ pc = "idle"
    /\ episodes' \in EpisodeCounts
    /\ steps_per_episode' \in StepCaps
    /\ batch_size' \in BatchSizes
    /\ steps_till_update' = 1
    /\ total_steps' = 1
    /\ i' = 1
    /\ pc' = "episode"
    /\ UNCHANGED <<action, gamma, min_epsilon, epsilon_decay, maxlen, steps_update_target_model,
                   epsilon0, agent, step, state, done, reward_in_episode,
                   replayLocals, history>>

\* an episode start that also empties the replay memory
Reset_ClearsMemory ==
    /\ pc = "episode"
    /\ i <= episodes
    /\ state' \in States
    /\ reward_in_episode' = 0
    /\ step' = 1
    /\ experience_replay' = <<>>
    /\ pc' = "step"
    /\ UNCHANGED <<action, config, epsilon, q_value_model, target_model, i, done,
                   steps_till_update, total_steps, replayLocals, history>>

\* lines 160-165: the next episode starts with env.reset()
Reset ==
    /\ pc = "episode"
    /\ i <= episodes
    /\ state' \in States
    /\ reward_in_episode' = 0
    /\ step' = 1
    /\ pc' = "step"
    /\ UNCHANGED <<action, config, agent, i, done, steps_till_update, total_steps,
                   replayLocals, history>>

\* line 160: the episodes are exhausted, train_agent returns
Finish ==
    /\ pc = "episode"
    /\ i > episodes
    /\ pc' = "finished"
    /\ UNCHANGED <<action, config, agent, i, step, state, done, reward_in_episode,
                   steps_till_update, total_steps, replayLocals, history>>

\* lines 165-179: select an action, step the environment, store the transition
EnvStep ==
    /\ pc = "step"
    /\ step < steps_per_episode
    /\ \E action_ \in SampleAction(state), next_state \in States, d \in BOOLEAN :
        \E reward \in StepRewards(d) :
          LET t == [state |-> state, action |-> action_, reward |-> reward,
                    next_state |-> next_state, done |-> d]
          IN  /\ reward_in_episode' = reward_in_episode + reward
              /\ experience_replay' = DequeAppend(experience_replay, t, maxlen)
              /\ state' = next_state
              /\ action' = action_
              /\ done' = d
              /\ termSteps' = termSteps + (IF d THEN 1 ELSE 0)
    /\ envSteps' = envSteps + 1
    /\ pc' = "check"
    /\ UNCHANGED <<config, epsilon, q_value_model, target_model, i, step,
                   steps_till_update, total_steps, replayLocals,
                   appended, numFits, numDecays, sinceSync, lastSyncGap>>

\* line 165: range(1, steps_per_episode) is exhausted
Truncate ==
    /\ pc = "step"
    /\ step >= steps_per_episode
    /\ pc' = "episode_end"
    /\ UNCHANGED <<action, config, agent, i, step, state, done, reward_in_episode,
                   steps_till_update, total_steps, replayLocals, history>>

\* lines 182-183: break on a terminal state
Break ==
    /\ pc = "check"
    /\ Terminal
    /\ pc' = "episode_end"
    /\ UNCHANGED <<action, config, agent, i, step, state, done, reward_in_episode,
                   steps_till_update, total_steps, replayLocals, history>>

\* a _replay that decays epsilon before it tests the warm-up
ReplayWarmup_Decays ==
    /\ pc = "check"
    /\ ~Terminal
    /\ WarmingUp(Len(experience_replay), batch_size)
    /\ epsilon' = Decay(epsilon, min_epsilon, epsilon_decay)
    /\ numDecays' = numDecays + 1
    /\ pc' = "sync"
    /\ UNCHANGED <<action, config, experience_replay, q_value_model, target_model, i, step,
                   state, done, reward_in_episode, steps_till_update, total_steps,
                   replayLocals, appended, numFits, envSteps, termSteps,
                   sinceSync, lastSyncGap>>

\* line 186 with lines 106-107: _replay returns at once
ReplayWarmup ==
    /\ pc = "check"
    /\ ~Terminal
    /\ WarmingUp(Len(experience_replay), batch_size)
    /\ pc' = "sync"
    /\ UNCHANGED <<action, config, agent, i, step, state, done, reward_in_episode,
                   steps_till_update, total_steps, replayLocals, history>>

\* a _replay that is called before line 176 has stored the step's transition
ReplaySample_BeforeAppend ==
    /\ pc = "check"
    /\ ~Terminal
    /\ ~WarmingUp(Len(experience_replay), batch_size)
    /\ ~SampleFails(Len(experience_replay), batch_size)
    /\ \E mb \in SampleBatch(SubSeq(experience_replay, 1, Len(experience_replay) - 1),
                             batch_size) :
          /\ minibatch' = mb
          /\ states_in_batch' = [k \in 1..Len(mb) |-> mb[k].state]
          /\ target_in_batch' = [k \in 1..Len(mb) |-> TargetVector(mb[k])]
    /\ pc' = "fit"
    /\ UNCHANGED <<action, config, agent, i, step, state, done, reward_in_episode,
                   steps_till_update, total_steps, history>>

\* line 186 with lines 109-124: sample a minibatch and build the fit arguments
ReplaySample ==
    /\ pc = "check"
    /\ ~Terminal
    /\ ~WarmingUp(Len(experience_replay), batch_size)
    /\ ~SampleFails(Len(experience_replay), batch_size)
    /\ \E mb \in SampleBatch(experience_replay, batch_size) :
          /\ minibatch' = mb
          /\ states_in_batch' = [k \in 1..Len(mb) |-> mb[k].state]
          /\ target_in_batch' = [k \in 1..Len(mb) |-> TargetVector(mb[k])]
    /\ pc' = "fit"
    /\ UNCHANGED <<action, config, agent, i, step, state, done, reward_in_episode,
                   steps_till_update, total_steps, history>>

\* line 109: random.sample raises ValueError, which ends train_agent
ReplaySampleError ==
    /\ pc = "check"
    /\ ~Terminal
    /\ ~WarmingUp(Len(experience_replay), batch_size)
    /\ SampleFails(Len(experience_replay), batch_size)
    /\ pc' = "error"
    /\ UNCHANGED <<action, config, agent, i, step, state, done, reward_in_episode,
                   steps_till_update, total_steps, replayLocals, history>>

\* a fit on a network object that the target shares with the online network
ReplayFit_SharedNetwork ==
    /\ pc = "fit"
    /\ q_value_model' \in Params
    /\ target_model' = q_value_model'
    /\ numFits' = numFits + 1
    /\ epsilon' = Decay(epsilon, min_epsilon, epsilon_decay)
    /\ numDecays' = numDecays + 1
    /\ minibatch' = <<>> /\ states_in_batch' = <<>> /\ target_in_batch' = <<>>
    /\ pc' = "sync"
    /\ UNCHANGED <<action, config, experience_replay, i, step, state, done,
                   reward_in_episode, steps_till_update, total_steps,
                   appended, envSteps, termSteps, sinceSync, lastSyncGap>>

\* lines 127-137: one fit of the online network on the whole batch, then the decay
ReplayFit ==
    /\ pc = "fit"
    /\ q_value_model' \in Params
    /\ numFits' = numFits + 1
    /\ epsilon' = Decay(epsilon, min_epsilon, epsilon_decay)
    /\ numDecays' = numDecays + 1
    /\ minibatch' = <<>> /\ states_in_batch' = <<>> /\ target_in_batch' = <<>>
    /\ pc' = "sync"
    /\ UNCHANGED <<action, config, experience_replay, target_model, i, step, state, done,
                   reward_in_episode, steps_till_update, total_steps,
                   appended, envSteps, termSteps, sinceSync, lastSyncGap>>

\* lines 189-194: copy the online weights when due and set the counter to 1
\* (line 191), then advance both counters (lines 193-194)
Sync ==
    /\ pc = "sync"
    /\ IF SyncDue(steps_till_update, steps_update_target_model)
       THEN /\ target_model' = q_value_model
            /\ steps_till_update' = 1 + 1
            /\ lastSyncGap' = sinceSync + 1
            /\ sinceSync' = 0
       ELSE /\ target_model' = target_model
            /\ steps_till_update' = steps_till_update + 1
            /\ lastSyncGap' = lastSyncGap
            /\ sinceSync' = sinceSync + 1
    /\ total_steps' = NextTotalSteps(total_steps)
    /\ step' = step + 1
    /\ pc' = "step"
    /\ UNCHANGED <<action, config, experience_replay, epsilon, q_value_model, i, state, done,
                   reward_in_episode, replayLocals,
                   appended, numFits, numDecays, envSteps, termSteps>>

\* lines 196-198: the episode's reward is reported
EndEpisode ==
    /\ pc = "episode_end"
    /\ i' = i + 1
    /\ pc' = "episode"
    /\ UNCHANGED <<action, config, agent, step, state, done, reward_in_episode,
                   steps_till_update, total_steps, replayLocals, history>>

Next ==
    \/ TrainAgent
    \/ Reset
    \/ Finish
    \/ EnvStep
    \/ Truncate
    \/ Break
    \/ ReplayWarmup
    \/ ReplaySample
    \/ ReplaySampleError
    \/ ReplayFit
    \/ Sync
    \/ EndEpisode

Spec == Init /\ [][Next]_vars

----------------------------------------------------------------------------
\* The replay memory alone: deque(maxlen) of line 50 under the appends of line 176

InitBuffer ==
    /\ gamma = DefaultGamma
    /\ epsilon0 = DefaultEpsilon
    /\ min_epsilon = DefaultMinEpsilon
    /\ epsilon_decay = DefaultEpsilonDecay
    /\ maxlen \in BufferCapacities
    /\ steps_update_target_model = 1
    /\ experience_replay = <<>>
    /\ epsilon = epsilon0
    /\ q_value_model = 0
    /\ target_model = 0
    /\ episodes = 0 /\ steps_per_episode = 0 /\ batch_size = 0
    /\ pc = "buffer"
    /\ i = 0 /\ step = 0 /\ state = 0 /\ action = 0 /\ done = FALSE
    /\ reward_in_episode = 0 /\ steps_till_update = 0 /\ total_steps = 0
    /\ minibatch = <<>> /\ states_in_batch = <<>> /\ target_in_batch = <<>>
    /\ appended = <<>>
    /\ numFits = 0 /\ numDecays = 0 /\ envSteps = 0 /\ termSteps = 0
    /\ sinceSync = 0 /\ lastSyncGap = 0

\* line 176
BufferAppend ==
    /\ pc = "buffer"
    /\ Len(appended) < MaxAppends
    /\ \E t \in BufferInputs :
          /\ experience_replay' = DequeAppend(experience_replay, t, maxlen)
          /\ appended' = Append(appended, t)
    /\ UNCHANGED <<config, epsilon, q_value_model, target_model, locals, replayLocals,
                   numFits, numDecays, envSteps, termSteps, sinceSync, lastSyncGap>>

NextBuffer == BufferAppend

SpecBuffer == InitBuffer /\ [][NextBuffer]_vars

----------------------------------------------------------------------------
\* The epsilon schedule alone: the constructor's epsilon, min_epsilon and
\* epsilon_decay (lines 52-54, stored unchecked) under the decay of line 137

InitEpsilon ==
    /\ gamma = DefaultGamma
    /\ epsilon0 \in EpsilonValues
    /\ min_epsilon \in MinEpsilonValues
    /\ epsilon_decay \in DecayValues
    /\ maxlen = 1
    /\ steps_update_target_model = 1
    /\ experience_replay = <<>>
    /\ epsilon = epsilon0
    /\ q_value_model = 0
    /\ target_model = 0
    /\ episodes = 0 /\ steps_per_episode = 0 /\ batch_size = 0
    /\ pc = "decay"
    /\ i = 0 /\ step = 0 /\ state = 0 /\ action = 0 /\ done = FALSE
    /\ reward_in_episode = 0 /\ steps_till_update = 0 /\ total_steps = 0
    /\ minibatch = <<>> /\ states_in_batch = <<>> /\ target_in_batch = <<>>
    /\ appended = <<>>
    /\ numFits = 0 /\ numDecays = 0 /\ envSteps = 0 /\ termSteps = 0
    /\ sinceSync = 0 /\ lastSyncGap = 0

\* line 137
ApplyDecay ==
    /\ pc = "decay"
    /\ numDecays < MaxDecays
    /\ epsilon' = Decay(epsilon, min_epsilon, epsilon_decay)
    /\ numDecays' = numDecays + 1
    /\ UNCHANGED <<config, experience_replay, q_value_model, target_model, locals,
                   replayLocals, appended, numFits, envSteps, termSteps,
                   sinceSync, lastSyncGap>>

NextEpsilon == ApplyDecay

SpecEpsilon == InitEpsilon /\ [][NextEpsilon]_vars

----------------------------------------------------------------------------
\* test_agent (lines 200-214) on an agent as the constructor or a training run
\* leaves it: any epsilon, any two networks, an empty or a used replay memory

MaxTestSteps == 3

TestEpisodeCounts == {1, 2}
TestEpsilons == {0, Scale \div 2, DefaultEpsilon}
TestMemories == {<<>>} \cup {<<t>> : t \in BufferInputs}

\* an evaluation that explores like the training does
TestActions_EpsilonGreedy(s) == SampleAction(s)

\* line 211: the actions test_agent can take in state s
TestActions(s) == {ArgMax(Predict(q_value_model, s))}

\* a while loop that also stops at a step cap
TestLoopExit_Capped == done \/ envSteps >= MaxTestSteps

\* line 209: the while loop ends
TestLoopExit == done

InitTest ==
    /\ gamma = DefaultGamma
    /\ epsilon0 \in TestEpsilons
    /\ min_epsilon = 0
    /\ epsilon_decay = DefaultEpsilonDecay
    /\ maxlen = 1
    /\ steps_update_target_model = 1
    /\ experience_replay \in TestMemories
    /\ epsilon = epsilon0
    /\ q_value_model \in Params
    /\ target_model \in Params
    /\ episodes = 0 /\ steps_per_episode = 0 /\ batch_size = 0
    /\ pc = "test_idle"
    /\ i = 0 /\ step = 0 /\ state = 0 /\ action = 0 /\ done = FALSE
    /\ reward_in_episode = 0 /\ steps_till_update = 0 /\ total_steps = 0
    /\ minibatch = <<>> /\ states_in_batch = <<>> /\ target_in_batch = <<>>
    /\ appended = <<>>
    /\ numFits = 0 /\ numDecays = 0 /\ envSteps = 0 /\ termSteps = 0
    /\ sinceSync = 0 /\ lastSyncGap = 0

\* test_agent is called (lines 200-205)
TestAgent ==
    /\ pc = "test_idle"
    /\ episodes' \in TestEpisodeCounts
    /\ i' = 0
    /\ pc' = "test_episode"
    /\ UNCHANGED <<gamma, min_epsilon, epsilon_decay, maxlen, steps_update_target_model,
                   steps_per_episode, batch_size, epsilon0, agent, step, state, action,
                   done, reward_in_episode, steps_till_update, total_steps,
                   replayLocals, history>>

\* lines 205-207: the next evaluation episode starts
TestReset ==
    /\ pc = "test_episode"
    /\ i < episodes
    /\ state' \in States
    /\ done' = FALSE
    /\ pc' = "test_loop"
    /\ UNCHANGED <<config, agent, i, step, action, reward_in_episode,
                   steps_till_update, total_steps, replayLocals, history>>

\* lines 209-211: the loop goes on and picks its action
TestSelect ==
    /\ pc = "test_loop"
    /\ ~TestLoopExit
    /\ action' \in TestActions(state)
    /\ pc' = "test_env"
    /\ UNCHANGED <<config, agent, i, step, state, done, reward_in_episode,
                   steps_till_update, total_steps, replayLocals, history>>

\* lines 212-213: the environment is stepped and rendered.  envSteps stops
\* counting at MaxTestSteps; the loop does not.
TestEnvStep ==
    /\ pc = "test_env"
    /\ state' \in States
    /\ \E d \in BOOLEAN :
          /\ done' = d
          /\ termSteps' = termSteps + (IF d THEN 1 ELSE 0)
    /\ envSteps' = IF envSteps < MaxTestSteps THEN envSteps + 1 ELSE envSteps
    /\ pc' = "test_loop"
    /\ UNCHANGED <<config, agent, i, step, action, reward_in_episode,
                   steps_till_update, total_steps, replayLocals,
                   appended, numFits, numDecays, sinceSync, lastSyncGap>>

\* line 209 then line 205: the while loop ends, on to the next episode
TestNextEpisode ==
    /\ pc = "test_loop"
    /\ TestLoopExit
    /\ i' = i + 1
    /\ pc' = "test_episode"
    /\ UNCHANGED <<config, agent, step, state, action, done, reward_in_episode,
                   steps_till_update, total_steps, replayLocals, history>>

\* line 214: the episodes are exhausted, env.close()
TestClose ==
    /\ pc = "test_episode"
    /\ i >= episodes
    /\ pc' = "test_closed"
    /\ UNCHANGED <<config, agent, i, step, state, action, done, reward_in_episode,
                   steps_till_update, total_steps, replayLocals, history>>

NextTest ==
    \/ TestAgent
    \/ TestReset
    \/ TestSelect
    \/ TestEnvStep
    \/ TestNextEpisode
    \/ TestClose

SpecTest == InitTest /\ [][NextTest]_vars

\* test_agent runs in one thread that never pauses: a step that can be taken is taken
SpecTestFair == SpecTest /\ WF_vars(NextTest)

----------------------------------------------------------------------------
\* _sample_batch (lines 95-99) called on its own, on any replay memory of up
\* to MaxSampleLen transitions and with any batch size around that length

MaxSampleLen == 2

SampleSizes == (0 - 1)..(MaxSampleLen + 1)
SampleMemories ==
    UNION {[1..n -> BufferInputs] : n \in 0..MaxSampleLen}

InitSample ==
    /\ gamma = DefaultGamma
    /\ epsilon0 = DefaultEpsilon
    /\ min_epsilon = DefaultMinEpsilon
    /\ epsilon_decay = DefaultEpsilonDecay
    /\ maxlen = MaxSampleLen
    /\ steps_update_target_model = 1
    /\ experience_replay \in SampleMemories
    /\ appended = experience_replay
    /\ epsilon = epsilon0
    /\ q_value_model = 0
    /\ target_model = 0
    /\ episodes = 0 /\ steps_per_episode = 0
    /\ batch_size \in SampleSizes
    /\ pc = "sample_call"
    /\ i = 0 /\ step = 0 /\ state = 0 /\ action = 0 /\ done = FALSE
    /\ reward_in_episode = 0 /\ steps_till_update = 0 /\ total_steps = 0
    /\ minibatch = <<>> /\ states_in_batch = <<>> /\ target_in_batch = <<>>
    /\ numFits = 0 /\ numDecays = 0 /\ envSteps = 0 /\ termSteps = 0
    /\ sinceSync = 0 /\ lastSyncGap = 0

\* line 99: random.sample returns a list
SampleReturn ==
    /\ pc = "sample_call"
    /\ ~SampleFails(Len(experience_replay), batch_size)
    /\ minibatch' \in SampleBatch(experience_replay, batch_size)
    /\ pc' = "sample_returned"
    /\ UNCHANGED <<config, agent, i, step, state, action, done, reward_in_episode,
                   steps_till_update, total_steps, states_in_batch,
                   target_in_batch, history>>

\* line 99: random.sample raises ValueError
SampleRaise ==
    /\ pc = "sample_call"
    /\ SampleFails(Len(experience_replay), batch_size)
    /\ pc' = "sample_raised"
    /\ UNCHANGED <<config, agent, i, step, state, action, done, reward_in_episode,
                   steps_till_update, total_steps, replayLocals, history>>

NextSample ==
    \/ SampleReturn
    \/ SampleRaise

SpecSample == InitSample /\ [][NextSample]_vars

----------------------------------------------------------------------------
\* Claims

Min(a, b) == IF a <= b THEN a ELSE b

LastN(seq, n) == SubSeq(seq, Len(seq) - n + 1, Len(seq))

\* C1: after any sequence of appends to a replay memory of capacity maxlen, its
\* size is at most maxlen, and its contents are the last min(k, maxlen) of the k
\* appended transitions in append order; so once more than maxlen have been
\* appended the size is exactly maxlen and the oldest ones are gone.
C1_Eviction ==
    /\ Len(experience_replay) <= maxlen
    /\ experience_replay = LastN(appended, Min(Len(appended), maxlen))
    /\ Len(appended) > maxlen => Len(experience_replay) = maxlen

\* C1 witness: a memory of capacity 2 or more that has evicted at least twice
C1_Witness ==
    /\ pc = "buffer"
    /\ maxlen >= 2
    /\ Len(appended) >= maxlen + 2
    /\ experience_replay # SubSeq(appended, 1, maxlen)

MonotoneSchedule ==
    /\ 0 <= epsilon_decay /\ epsilon_decay <= Scale
    /\ epsilon >= 0
    /\ epsilon >= min_epsilon

C2_SyncEveryInterval ==
    /\ lastSyncGap \in {0, steps_update_target_model}
    /\ sinceSync < steps_update_target_model

\* C3: a step changes the target network only if it is the synchronization of a
\* step on which the counter is due, and then the target becomes the online
\* network; fits, action selections, appends and decays leave it alone.
C3_TargetFrame ==
    [][target_model' # target_model =>
          /\ pc = "sync"
          /\ steps_till_update % steps_update_target_model = 0
          /\ target_model' = q_value_model
          /\ UNCHANGED <<q_value_model, epsilon, experience_replay, numFits>>]_vars

\* C3 witness: after a synchronization, which made the two networks equal, a
\* later fit has moved the online network and the target has stayed behind
C3_Witness ==
    /\ pc = "sync"
    /\ lastSyncGap > 0
    /\ numFits >= 2
    /\ target_model # q_value_model

RECURSIVE IterDecay(_)
\* the constructor's epsilon after n decays
IterDecay(n) ==
    IF n = 0 THEN epsilon0
    ELSE LET e == IterDecay(n - 1)
             prod == (e * epsilon_decay) \div Scale
         IN  IF min_epsilon >= prod THEN min_epsilon ELSE prod

\* C5: at every point of a training run the decay has been applied exactly as
\* often as fit has been called, and epsilon is the constructor's epsilon
\* decayed that many times.
C5_DecayPerFit ==
    /\ numDecays = numFits
    /\ epsilon = IterDecay(numFits)

\* C5 witness: a run with two fits, a terminal step, a synchronization and an
\* update that was a no-op, at the end of its second episode
C5_Witness ==
    /\ pc = "episode_end"
    /\ i = 2
    /\ numFits = 2
    /\ epsilon < epsilon0
    /\ termSteps >= 1
    /\ lastSyncGap > 0
    /\ total_steps - 1 > numFits

\* what an update can change
learner == <<q_value_model, epsilon, numFits, numDecays, replayLocals>>

learning == <<experience_replay, epsilon, q_value_model, target_model,
              steps_till_update, numFits, numDecays, sinceSync, lastSyncGap,
              replayLocals>>

\* C7: after a step that reported done the episode ends at once, with no
\* update, no synchronization and no advance of the sync counter; the episode
\* boundary changes none of these either, and the next environment step is
\* step 1 of the next episode, after a reset.
C7_TerminalStep ==
    [][/\ (pc = "check" /\ done) => (pc' = "episode_end" /\ UNCHANGED learning)
       /\ pc = "episode_end" => (pc' = "episode" /\ UNCHANGED learning)
       /\ pc = "episode" =>
             /\ pc' = "finished" \/ (pc' = "step" /\ step' = 1)
             /\ UNCHANGED learning
       /\ envSteps' # envSteps => (pc = "step" /\ (done => step = 1))]_vars

\* C7 witness: the second episode is about to take its first step after a first
\* episode that ended on a terminal step, the memory holding that transition
C7_Witness ==
    /\ pc = "step"
    /\ i = 2
    /\ step = 1
    /\ done
    /\ Len(experience_replay) >= 2
    /\ experience_replay[Len(experience_replay)].done

\* between two iterations of the step loop, and after it
AtLoopBoundary == pc \in {"step", "episode_end", "episode", "finished"}

\* C8 as stated: total_steps counts every environment step, the terminal ones
\* included (from its initial value 1).
C8_Original ==
    AtLoopBoundary => total_steps = 1 + envSteps

\* C8 amended: total_steps advances by one at the end of every environment step
\* that did not report done (after the update and the synchronization) and is
\* not advanced on a terminal step; it is never reset or decreased at episode
\* boundaries; so between steps it is 1 plus the number of non-terminal
\* environment steps so far.
C8_Amended ==
    /\ AtLoopBoundary => total_steps = 1 + envSteps - termSteps
    /\ (pc = "check" /\ done) => total_steps = 1 + envSteps - termSteps
    /\ (pc = "check" /\ ~done) \/ pc \in {"fit", "sync", "error"} =>
          total_steps = envSteps - termSteps

\* C8 witness: a finished run with terminal and non-terminal steps
C8_Witness ==
    /\ pc = "finished"
    /\ termSteps >= 1
    /\ total_steps >= 3
    /\ total_steps < 1 + envSteps

\* C9: the entry of the regression target at the taken action is the reward for
\* a terminal transition, and the reward plus gamma times the largest q-value of
\* the target network in the next state otherwise (1 + 0.95 * 2.0 = 2.9).
C9_TDTarget ==
    pc = "fit" =>
        \A k \in 1..Len(minibatch) :
            LET t == minibatch[k]
                y == target_in_batch[k][t.action]
                best == MaxOf(Predict(target_model, t.next_state))
            IN  /\ t.done => y = t.reward
                /\ ~t.done => y = t.reward + (gamma * best) \div Scale
                /\ (~t.done /\ gamma = 950 /\ t.reward = 1000 /\ best = 2000)
                      => y = 2900

\* C9 witness: a minibatch with a terminal transition, whose target is the bare
\* reward, and a non-terminal one with gamma 0.95, reward 1 and target maximum
\* 2.0 where the online network's maximum differs
C9_Witness ==
    /\ pc = "fit"
    /\ gamma = 950
    /\ \E k \in 1..Len(minibatch) :
          /\ minibatch[k].done
          /\ target_in_batch[k][minibatch[k].action] = minibatch[k].reward
          /\ MaxOf(Predict(target_model, minibatch[k].next_state)) > 0
    /\ \E k \in 1..Len(minibatch) :
          /\ ~minibatch[k].done
          /\ minibatch[k].reward = 1000
          /\ MaxOf(Predict(target_model, minibatch[k].next_state)) = 2000
          /\ MaxOf(Predict(q_value_model, minibatch[k].next_state)) # 2000
          /\ target_in_batch[k][minibatch[k].action] = 2900

\* C10: the fit arguments hold one pair per sampled transition, in order: its
\* state, and the online network's prediction for that state changed only at
\* the taken action; fit is called once on all of them, after which nothing of
\* the minibatch is left.
C10_TargetVector ==
    /\ [](pc = "fit" =>
            /\ Len(minibatch) = batch_size
            /\ Len(states_in_batch) = batch_size
            /\ Len(target_in_batch) = batch_size
            /\ \A k \in 1..Len(minibatch) :
                  /\ states_in_batch[k] = minibatch[k].state
                  /\ DOMAIN target_in_batch[k] = Actions
                  /\ \A a \in Actions \ {minibatch[k].action} :
                        target_in_batch[k][a] =
                            Predict(q_value_model, minibatch[k].state)[a])
    /\ [](pc # "fit" => replayLocals = <<<<>>, <<>>, <<>>>>)
    /\ [][numFits' # numFits =>
             (pc = "fit" /\ pc' = "sync" /\ numFits' = numFits + 1)]_vars

\* C10 witness: a minibatch of two where an untaken action keeps a non-zero
\* online prediction and the taken action's entry differs from the prediction
C10_Witness ==
    /\ pc = "fit"
    /\ Len(minibatch) = 2
    /\ \E k \in 1..2 :
          LET t == minibatch[k]
              q == Predict(q_value_model, t.state)
          IN  /\ \E a \in Actions \ {t.action} : q[a] # 0 /\ target_in_batch[k][a] = q[a]
              /\ target_in_batch[k][t.action] # q[t.action]


\* C11: every training episode takes at most steps_per_episode - 1 environment
\* steps, and train_agent never ends otherwise than by returning after exactly
\* `episodes` episodes.
C11_RunsAllEpisodes ==
    /\ pc \in {"step", "check", "fit", "sync", "episode_end"} =>
          (1 <= step /\ step <= steps_per_episode)
    /\ pc \in {"check", "fit", "sync"} => step <= steps_per_episode - 1
    /\ pc = "finished" => i = episodes + 1
    /\ pc # "error"

RECURSIVE CounterAfter(_, _)
\* steps_till_update after k loop iterations that reached line 189
CounterAfter(k, interval) ==
    IF k = 0 THEN 1
    ELSE LET c == CounterAfter(k - 1, interval)
         IN  (IF c % interval = 0 THEN 1 ELSE c) + 1

RECURSIVE SinceSyncAfter(_, _)
\* iterations since the last synchronization, after k such iterations
SinceSyncAfter(k, interval) ==
    IF k = 0 THEN 0
    ELSE IF CounterAfter(k - 1, interval) % interval = 0 THEN 0
    ELSE SinceSyncAfter(k - 1, interval) + 1

\* C12: the sync counter and the distance to the last synchronization are
\* functions of the number of completed non-terminal steps and of the interval
\* alone, whatever the number of fits; so the n-th synchronization falls on the
\* same step whether or not updates fired.
C12_SyncCadence ==
    pc # "idle" =>
        /\ steps_till_update = CounterAfter(total_steps - 1, steps_update_target_model)
        /\ sinceSync = SinceSyncAfter(total_steps - 1, steps_update_target_model)
        /\ lastSyncGap = 0 =>
              total_steps - 1 < steps_update_target_model

\* C12 witness: a synchronization has just copied the online weights on a step
\* whose update was a no-op because the memory held no more than batch_size
C12_Witness ==
    /\ pc = "step"
    /\ step >= 2
    /\ sinceSync = 0
    /\ lastSyncGap > 0
    /\ batch_size >= 1
    /\ Len(experience_replay) <= batch_size
    /\ numFits = 0
    /\ target_model = q_value_model


\* C13: every action of test_agent is the first action of largest online
\* q-value in the current state, whatever epsilon is; and no step of test_agent
\* changes the replay memory, epsilon, the online or the target network.
C13_GreedyEvaluation ==
    /\ [](pc = "test_env" => action = ArgMax(Predict(q_value_model, state)))
    /\ [][UNCHANGED <<experience_replay, epsilon, q_value_model, target_model,
                      numFits, numDecays>>]_vars

\* C13 witness: in its second episode, with epsilon 1 and a used replay memory,
\* test_agent has picked action 1, which the online network but not the target
\* network rates best
C13_Witness ==
    /\ pc = "test_env"
    /\ i = 1
    /\ epsilon = Scale
    /\ experience_replay # <<>>
    /\ action = 1
    /\ ArgMax(Predict(target_model, state)) # 1

\* C14: an evaluation episode is left only when the environment has reported
\* done, and as long as it has not the next step can be taken, however many
\* were taken; test_agent ends only after done was reported in each of its
\* episodes, and it does end unless from some point on an episode never
\* reports done.
C14_RunsUntilDone ==
    /\ [](pc = "test_closed" => (i = episodes /\ termSteps = episodes))
    /\ [](pc = "test_loop" /\ ~done => ENABLED TestSelect)
    /\ [][pc = "test_loop" /\ pc' # "test_loop" =>
             IF done THEN pc' = "test_episode" ELSE pc' = "test_env"]_vars
    /\ \/ <>(pc = "test_closed")
       \/ <>[](pc \in {"test_loop", "test_env"} /\ ~done)

\* C14 witness: the first evaluation episode has taken MaxTestSteps steps
\* without a done and goes on
C14_Witness ==
    /\ pc = "test_env"
    /\ i = 0
    /\ termSteps = 0
    /\ envSteps = MaxTestSteps


\* the configurations C15 calls invalid, once train_agent has its arguments
InvalidConfiguration ==
    \/ maxlen <= 0
    \/ batch_size <= 0
    \/ episodes <= 0
    \/ epsilon0 < 0
    \/ epsilon0 > Scale
    \/ min_epsilon > epsilon0

\* C15: a training run with an invalid configuration never steps the
\* environment, never stores a transition, never fits and never decays.
C15_InvalidConfigRejected ==
    (pc # "idle" /\ InvalidConfiguration) =>
        /\ envSteps = 0
        /\ experience_replay = <<>>
        /\ numFits = 0
        /\ numDecays = 0

\* minibatch holds k entries of buf taken at pairwise distinct positions
DistinctEntries(mb, buf, k) ==
    /\ Len(mb) = k
    /\ \E f \in [1..k -> 1..Len(buf)] :
          /\ \A x, y \in 1..k : x # y => f[x] # f[y]
          /\ \A x \in 1..k : mb[x] = buf[f[x]]

\* C16: a sample that returns was asked for 0 < batch_size <= size entries and
\* holds batch_size entries of the unchanged memory at distinct positions; a
\* sample asked for batch_size <= 0 or batch_size > size raises and returns
\* nothing.
C16_SampleContract ==
    /\ experience_replay = appended
    /\ pc = "sample_returned" =>
          /\ 0 < batch_size
          /\ batch_size <= Len(experience_replay)
          /\ DistinctEntries(minibatch, experience_replay, batch_size)
    /\ pc = "sample_raised" =>
          /\ batch_size <= 0 \/ batch_size > Len(experience_replay)
          /\ minibatch = <<>>


\* the transition stored last
Newest == experience_replay[Len(experience_replay)]

\* C17: from line 176 to the end of the iteration the newest entry of the
\* replay memory is this step's transition; when _replay samples, a minibatch
\* holding that entry can be drawn, and the minibatch that is fitted is a
\* sample of the memory that holds it; and from a step whose synchronization
\* fired until the next fit the target network equals the online network,
\* the fit of that same step included.
C17_AppendFitSync ==
    /\ pc \in {"check", "fit", "sync"} =>
          /\ experience_replay # <<>>
          /\ Newest.next_state = state
          /\ Newest.action = action
          /\ Newest.done = done
    /\ (/\ pc = "check" /\ ~Terminal
        /\ ~WarmingUp(Len(experience_replay), batch_size)
        /\ ~SampleFails(Len(experience_replay), batch_size)) =>
          ENABLED (ReplaySample /\ \E k \in 1..batch_size : minibatch'[k] = Newest)
    /\ pc = "fit" => minibatch \in SampleBatch(experience_replay, batch_size)
    /\ (sinceSync = 0 /\ lastSyncGap > 0 /\ pc # "sync") =>
          target_model = q_value_model

\* C17 witness: the step that made the first fit has also synchronized, and
\* the memory it sampled was one entry above the batch size
C17_Witness ==
    /\ pc = "step" /\ step >= 2
    /\ numFits = 1
    /\ envSteps = batch_size + 1
    /\ Len(experience_replay) = batch_size + 1
    /\ sinceSync = 0 /\ lastSyncGap > 0
    /\ target_model = q_value_model

C19_NoInitialSync ==
    /\ [][lastSyncGap' = 0 => target_model' = target_model]_vars
    /\ [](pc = "fit" /\ lastSyncGap = 0 =>
             \A k \in 1..Len(minibatch) :
                 target_in_batch[k] = TargetVector(minibatch[k]))

\* C19 witness: after a first fit and before any synchronization a second
\* fit is prepared while the target network differs from the online one, and
\* a sampled transition's target differs from what the online network gives
C19_Witness ==
    /\ pc = "fit"
    /\ lastSyncGap = 0
    /\ numFits >= 1
    /\ target_model # q_value_model
    /\ \E k \in 1..Len(minibatch) : TDTarget(minibatch[k]) # TDTarget_Online(minibatch[k])

\* C20: the replay memory holds min(k, maxlen) transitions after k environment
\* steps, terminal or not; and the start of an episode leaves the agent, both
\* counters and the configuration as they were.
C20_EpisodeBoundary ==
    /\ [](Len(experience_replay) = Min(envSteps, maxlen))
    /\ [][pc = "episode" /\ pc' = "step" =>
             UNCHANGED <<config, agent, total_steps, steps_till_update, i, history>>]_vars

\* C20 witness: the second episode starts with the memory, the decayed
\* epsilon and the counters of the first
C20_Witness ==
    /\ pc = "step" /\ i = 2 /\ step = 1
    /\ Len(experience_replay) >= 2
    /\ numFits >= 1
    /\ epsilon < epsilon0
    /\ total_steps >= 2
    /\ steps_till_update >= 2

====
